---- MODULE Spec2Model ----
(***************************************************************************)
(* Roman dodecahedron STL generator (generate_dodecahedron_stl.py).        *)
(*                                                                         *)
(* Points of the generated mesh are kept symbolically, identified by       *)
(* position: <<"V", v, 0>> is solid vertex v, <<"HO", f, k>> is sample k   *)
(* of the outer hole rim of face f, <<"HI", f, k>> the matching sample of  *)
(* the inner rim, <<"IC", f, 0>> the inner centre of face f and            *)
(* <<"K", v, i>> is vertex i of the sphere mesh of the knob at vertex v.   *)
(* A triangle is a 3-tuple of points in winding order.                     *)
(*                                                                         *)
(* Coordinates of the solid are exact numbers a + b*phi (phi the golden    *)
(* ratio), written <<a, b>>, in units of 1/sqrt(3) mm, so that             *)
(* scale = circumradius / sqrt(3) is the integer circumradius.             *)
(***************************************************************************)
EXTENDS Integers, Sequences, FiniteSets, TLC

VARIABLES pc, circumradius, hole_diameters, noise, faces, face_idx,
          knob_idx, all_triangles, logged, file, exc,
          segments, mesh_vertices, triangles, loop_i

vars == <<pc, circumradius, hole_diameters, noise, faces, face_idx,
          knob_idx, all_triangles, logged, file, exc,
          segments, mesh_vertices, triangles, loop_i>>

\* The state of a call of create_sphere_mesh or create_cylinder_mesh on its
\* own: its segment count, its two lists and the count of finished iterations
\* of its triangle loops.
mesh_vars == <<segments, mesh_vertices, triangles, loop_i>>

\* No such call is under way.
MeshIdle ==
    /\ segments = 0
    /\ mesh_vertices = <<>>
    /\ triangles = <<>>
    /\ loop_i = 0

(***************************************************************************)
(* PARAMETERS (module-level constants of the program).                     *)
(***************************************************************************)
VERTEX_DIAMETER == 80

WALL_THICKNESS == 3

KNOB_RADIUS == 8

HOLE_DIAMETERS == <<35, 32, 29, 26, 23, 20, 17, 14, 12, 10, 8, 6>>

SPHERE_SEGMENTS == 16

CYLINDER_SEGMENTS == 32

(***************************************************************************)
(* Exact arithmetic on a + b*phi, phi*phi = phi + 1.                       *)
(***************************************************************************)
Abs(x) == IF x < 0 THEN -x ELSE x

RECURSIVE Gcd(_, _)
Gcd(a, b) == IF b = 0 THEN a ELSE Gcd(b, a % b)

ZZero == <<0, 0>>

ZAdd(x, y) == <<x[1] + y[1], x[2] + y[2]>>

ZSub(x, y) == <<x[1] - y[1], x[2] - y[2]>>

ZScale(k, x) == <<k * x[1], k * x[2]>>

ZMul(x, y) == <<x[1] * y[1] + x[2] * y[2],
                x[1] * y[2] + x[2] * y[1] + x[2] * y[2]>>

\* PHI = (1 + sqrt(5)) / 2 and its inverse 1/PHI = PHI - 1.
PHI == <<0, 1>>

INV_PHI == <<-1, 1>>

\* Sign of a + b*phi = ((2a + b) + b*sqrt(5)) / 2, decided exactly after
\* dividing out the common factor of a and b.
ZSign(x) ==
    LET g == Gcd(Abs(x[1]), Abs(x[2]))
        a == IF g = 0 THEN 0 ELSE x[1] \div g
        b == IF g = 0 THEN 0 ELSE x[2] \div g
        A == 2 * a + b
        B == b
    IN  IF A = 0 /\ B = 0 THEN 0
        ELSE IF A >= 0 /\ B >= 0 THEN 1
        ELSE IF A =< 0 /\ B =< 0 THEN -1
        ELSE IF A > 0 THEN (IF A * A > 5 * B * B THEN 1 ELSE -1)
        ELSE (IF 5 * B * B > A * A THEN 1 ELSE -1)

VAdd(p, q) == <<ZAdd(p[1], q[1]), ZAdd(p[2], q[2]), ZAdd(p[3], q[3])>>

VSub(p, q) == <<ZSub(p[1], q[1]), ZSub(p[2], q[2]), ZSub(p[3], q[3])>>

VScale(k, p) == <<ZScale(k, p[1]), ZScale(k, p[2]), ZScale(k, p[3])>>

VDot(p, q) == ZAdd(ZAdd(ZMul(p[1], q[1]), ZMul(p[2], q[2])), ZMul(p[3], q[3]))

VCross(p, q) == <<ZSub(ZMul(p[2], q[3]), ZMul(p[3], q[2])),
                  ZSub(ZMul(p[3], q[1]), ZMul(p[1], q[3])),
                  ZSub(ZMul(p[1], q[2]), ZMul(p[2], q[1]))>>

(***************************************************************************)
(* GEOMETRY FUNCTIONS                                                      *)
(***************************************************************************)
Signs == <<-1, 1>>

\* The 20 vertices, in the order the four loop nests append them:
\* (+-1, +-1, +-1), (0, +-1/phi, +-phi), (+-1/phi, +-phi, 0), (+-phi, 0, +-1/phi),
\* each times scale.
get_dodecahedron_vertices(radius) ==
    LET s(k) == Signs[k + 1]
        one == <<radius, 0>>
        ph == ZScale(radius, PHI)
        iph == ZScale(radius, INV_PHI)
    IN  [n \in 1..8 |->
            <<ZScale(s((n - 1) \div 4), one),
              ZScale(s(((n - 1) \div 2) % 2), one),
              ZScale(s((n - 1) % 2), one)>>]
        \o [n \in 1..4 |->
            <<ZZero, ZScale(s((n - 1) \div 2), iph), ZScale(s((n - 1) % 2), ph)>>]
        \o [n \in 1..4 |->
            <<ZScale(s((n - 1) \div 2), iph), ZScale(s((n - 1) % 2), ph), ZZero>>]
        \o [n \in 1..4 |->
            <<ZScale(s((n - 1) \div 2), ph), ZZero, ZScale(s((n - 1) % 2), iph)>>]

\* get_dodecahedron_faces with the last face listed in the opposite direction.
get_dodecahedron_faces_flipped ==
    << <<0, 8, 4, 14, 12>>,
       <<0, 16, 2, 10, 8>>,
       <<0, 12, 1, 17, 16>>,
       <<1, 12, 14, 5, 9>>,
       <<1, 9, 11, 3, 17>>,
       <<2, 16, 17, 3, 13>>,
       <<2, 13, 15, 6, 10>>,
       <<4, 8, 10, 6, 18>>,
       <<4, 18, 19, 5, 14>>,
       <<3, 11, 7, 15, 13>>,
       <<5, 19, 7, 11, 9>>,
       <<6, 18, 19, 7, 15>> >>

\* get_dodecahedron_faces with the last face listing vertex 17 for vertex 18.
get_dodecahedron_faces_typo ==
    << <<0, 8, 4, 14, 12>>,
       <<0, 16, 2, 10, 8>>,
       <<0, 12, 1, 17, 16>>,
       <<1, 12, 14, 5, 9>>,
       <<1, 9, 11, 3, 17>>,
       <<2, 16, 17, 3, 13>>,
       <<2, 13, 15, 6, 10>>,
       <<4, 8, 10, 6, 18>>,
       <<4, 18, 19, 5, 14>>,
       <<3, 11, 7, 15, 13>>,
       <<5, 19, 7, 11, 9>>,
       <<6, 15, 7, 19, 17>> >>

get_dodecahedron_faces ==
    << <<0, 8, 4, 14, 12>>,
       <<0, 16, 2, 10, 8>>,
       <<0, 12, 1, 17, 16>>,
       <<1, 12, 14, 5, 9>>,
       <<1, 9, 11, 3, 17>>,
       <<2, 16, 17, 3, 13>>,
       <<2, 13, 15, 6, 10>>,
       <<4, 8, 10, 6, 18>>,
       <<4, 18, 19, 5, 14>>,
       <<3, 11, 7, 15, 13>>,
       <<5, 19, 7, 11, 9>>,
       <<6, 15, 7, 19, 18>> >>

\* vertices[face]: the positions of the indices of one face (0-based indices).
FaceVerts(vertices, face) == [i \in 1..Len(face) |-> vertices[face[i] + 1]]

\* get_face_centers keeps the mean of the 5 vertices; the model keeps 5 times
\* the mean (the sum), which has the same direction.
get_face_centers(vertices, table) ==
    [f \in 1..Len(table) |->
        LET fv == FaceVerts(vertices, table[f])
        IN  VAdd(VAdd(VAdd(VAdd(fv[1], fv[2]), fv[3]), fv[4]), fv[5])]


(***************************************************************************)
(* Angles.  The angle unit is 2*pi / (10 * CYLINDER_SEGMENTS): rim sample  *)
(* hi lies at 10 * hi, pentagon vertex number k (counted from vertex 0 in  *)
(* the direction of basis_y) at 2 * CYLINDER_SEGMENTS * k, and one unit is *)
(* left for the rounding error of an angle that is exactly 0.              *)
(***************************************************************************)
FULL_TURN == 10 * CYLINDER_SEGMENTS

\* 5 * (v - center), for vertex i (0-based) of face f (0-based).
Local5(vertices, table, f, i) ==
    VSub(VScale(5, vertices[table[f + 1][i + 1] + 1]),
         get_face_centers(vertices, table)[f + 1])

\* np.arctan2(dot(local, basis_y), dot(local, basis_x)) of pentagon vertex i, as
\* a multiple of 2*pi/5 in -2..2.  basis_x has the direction of local(vertex 0)
\* and basis_y that of normal x basis_x, the normal having the direction of the
\* centre; the cosine is read off exactly: 1, (phi - 1)/2 or -phi/2.
AngleIdx(vertices, table, f, i) ==
    LET l0 == Local5(vertices, table, f, 0)
        li == Local5(vertices, table, f, i)
        by == VCross(get_face_centers(vertices, table)[f + 1], l0)
        n == VDot(l0, l0)
        c == VDot(li, l0)
        s == ZSign(VDot(li, by))
    IN  IF c = n THEN 0
        ELSE IF ZScale(2, c) = ZMul(n, INV_PHI) THEN (IF s > 0 THEN 1 ELSE -1)
        ELSE IF ZScale(2, c) = ZScale(-1, ZMul(n, PHI)) THEN (IF s > 0 THEN 2 ELSE -2)
        ELSE 3

\* get_angle(v) of create_simple_dodecahedron_with_holes, in angle units.  The
\* angle of vertex 0 is 0 up to rounding: eps in {-1, 0, 1} is its sign.
get_angle(vertices, table, eps, f, i) ==
    IF i = 0 THEN eps
    ELSE 2 * CYLINDER_SEGMENTS * AngleIdx(vertices, table, f, i)

\* ha = 2 * pi * hi / CYLINDER_SEGMENTS
hole_angle(hi) == 10 * hi

\* The sector test of create_simple_dodecahedron_with_holes.
in_sector(a0, a1, ha) ==
    IF a0 < a1 THEN ha >= a0 /\ ha =< a1
    ELSE ha >= a0 \/ ha =< a1

RangeSeq(n) == [k \in 1..n |-> k - 1]

\* sector_hole_indices after the sort by (ha - a0) % (2*pi).
sector_hole_indices(a0, a1) ==
    LET InSec(hi) == in_sector(a0, a1, hole_angle(hi))
        Key(hi) == (hole_angle(hi) - a0) % FULL_TURN
    IN  SortSeq(SelectSeq(RangeSeq(CYLINDER_SEGMENTS), InSec),
                LAMBDA x, y : Key(x) < Key(y))

\* min(range(CYLINDER_SEGMENTS), key=abs((ha - (a0 + a1) / 2) % (2*pi))):
\* the first index with the least key (keys doubled to stay integral).
nearest(a0, a1) ==
    LET Key(hi) == Abs((2 * hole_angle(hi) - (a0 + a1)) % (2 * FULL_TURN))
    IN  CHOOSE hi \in 0..(CYLINDER_SEGMENTS - 1) :
            \A o \in 0..(CYLINDER_SEGMENTS - 1) :
                Key(hi) < Key(o) \/ (Key(hi) = Key(o) /\ hi =< o)

(***************************************************************************)
(* Points and triangles of the body.                                       *)
(***************************************************************************)
PV(table, f, i) == <<"V", table[f + 1][(i % 5) + 1], 0>>

HO(f, k) == <<"HO", f, k>>

HI(f, k) == <<"HI", f, k>>

IC(f) == <<"IC", f, 0>>

\* Lines 504-549: the triangles of pentagon edge i of face f.
EdgeTriangles(vertices, table, eps, f, i) ==
    LET pv0 == PV(table, f, i)
        pv1 == PV(table, f, i + 1)
        a0 == get_angle(vertices, table, eps, f, i)
        a1 == get_angle(vertices, table, eps, f, (i + 1) % 5)
        sec == sector_hole_indices(a0, a1)
        n == Len(sec)
    IN  IF n = 0
        THEN << <<pv0, pv1, HO(f, nearest(a0, a1))>> >>
        ELSE << <<pv0, HO(f, sec[1]), IF n > 1 THEN HO(f, sec[n]) ELSE pv1>> >>
             \o [j \in 1..(n - 1) |-> <<pv0, HO(f, sec[j + 1]), HO(f, sec[j])>>]
             \o << <<pv0, pv1, HO(f, sec[n])>> >>

FaceTriangles(vertices, table, eps, f) ==
    EdgeTriangles(vertices, table, eps, f, 0)
    \o EdgeTriangles(vertices, table, eps, f, 1)
    \o EdgeTriangles(vertices, table, eps, f, 2)
    \o EdgeTriangles(vertices, table, eps, f, 3)
    \o EdgeTriangles(vertices, table, eps, f, 4)

\* Lines 551-556: the inner face around the hole.
InnerCapTriangles(f) ==
    [k \in 1..CYLINDER_SEGMENTS |->
        <<IC(f), HI(f, k % CYLINDER_SEGMENTS), HI(f, k - 1)>>]

\* HoleWallTriangles with the second triangle of each segment listed the other
\* way round.
HoleWallTriangles_flipped(f) ==
    [k \in 1..(2 * CYLINDER_SEGMENTS) |->
        LET hi1 == (k - 1) \div 2
            hi2 == (hi1 + 1) % CYLINDER_SEGMENTS
        IN  IF k % 2 = 1 THEN <<HO(f, hi1), HO(f, hi2), HI(f, hi1)>>
            ELSE <<HI(f, hi1), HI(f, hi2), HO(f, hi2)>>]

\* Lines 558-563: the hole wall, two triangles per rim segment.
HoleWallTriangles(f) ==
    [k \in 1..(2 * CYLINDER_SEGMENTS) |->
        LET hi1 == (k - 1) \div 2
            hi2 == (hi1 + 1) % CYLINDER_SEGMENTS
        IN  IF k % 2 = 1 THEN <<HO(f, hi1), HO(f, hi2), HI(f, hi1)>>
            ELSE <<HI(f, hi1), HO(f, hi2), HI(f, hi2)>>]

\* One iteration of the face loop, lines 479-563.
FaceBlock(vertices, table, eps, f) ==
    FaceTriangles(vertices, table, eps, f) \o InnerCapTriangles(f) \o HoleWallTriangles(f)

\* create_sphere_mesh without the wrap of the longitude to column 0.
create_sphere_mesh_nowrap(n) ==
    [t \in 1..(2 * n * n) |->
        LET q == (t - 1) \div 2
            i == q \div n
            j == q % n
            v0 == i * n + j
            v1 == i * n + (j + 1)
            v2 == (i + 1) * n + j
            v3 == (i + 1) * n + (j + 1)
        IN  IF t % 2 = 1 THEN <<v0, v2, v1>> ELSE <<v1, v2, v3>>]

\* create_sphere_mesh: the index triangles of a sphere of n segments.
create_sphere_mesh(n) ==
    [t \in 1..(2 * n * n) |->
        LET q == (t - 1) \div 2
            i == q \div n
            j == q % n
            v0 == i * n + j
            v1 == i * n + ((j + 1) % n)
            v2 == (i + 1) * n + j
            v3 == (i + 1) * n + ((j + 1) % n)
        IN  IF t % 2 = 1 THEN <<v0, v2, v1>> ELSE <<v1, v2, v3>>]

\* Lines 566-576: the triangles of the knob at vertex v.
KnobTriangles(v) ==
    LET tris == create_sphere_mesh(SPHERE_SEGMENTS)
    IN  [t \in 1..Len(tris) |->
            <<<<"K", v, tris[t][1]>>, <<"K", v, tris[t][2]>>, <<"K", v, tris[t][3]>>>>]


(***************************************************************************)
(* The 0.95 * inradius threshold.  Lengths here are in 1/100 mm.           *)
(***************************************************************************)
\* PHI to three decimals, times 1000.
PhiMilli == 1618

RECURSIVE ISqrtIter(_, _)
ISqrtIter(x, r) ==
    LET r2 == (r + (x \div r)) \div 2
    IN  IF r2 >= r THEN r ELSE ISqrtIter(x, r2)

\* The integer square root.
ISqrt(x) == IF x =< 0 THEN 0 ELSE ISqrtIter(x, x)

\* Lines 280-283: the distance from the face centre to the midpoint of the edge
\* from vertex 0 to vertex 1 (the midpoint lies in the face plane).  With
\* m10 = 10 * (edge_midpoint - center) in units of 1/sqrt(3) mm, the squared
\* inradius is m10.m10 / 300 square mm.
inradius(vertices, table, f) ==
    LET fv == FaceVerts(vertices, table[f + 1])
        m10 == VSub(VScale(5, VAdd(fv[1], fv[2])),
                    VScale(2, get_face_centers(vertices, table)[f + 1]))
        m == VDot(m10, m10)
    IN  ISqrt(((m[1] + ((m[2] * PhiMilli) \div 1000)) * 100) \div 3)

\* hole_radius = diameter / 2, in 1/100 mm.
hole_radius(diameter) == 50 * diameter

\* Line 286: hole_radius < inradius * 0.95.
hole_fits(diameter, inr) == 100 * hole_radius(diameter) < 95 * inr

(***************************************************************************)
(* STL WRITING                                                             *)
(***************************************************************************)
\* b'Roman Dodecahedron Navigation Device v1.0' + b'\0' * 39
HeaderText ==
    << 82, 111, 109, 97, 110, 32, 68, 111, 100, 101, 99, 97, 104, 101,
       100, 114, 111, 110, 32, 78, 97, 118, 105, 103, 97, 116, 105, 111,
       110, 32, 68, 101, 118, 105, 99, 101, 32, 118, 49, 46, 48 >>

header == HeaderText \o [i \in 1..39 |-> 0]

\* struct.calcsize of the formats used.
calcsize(fmt) ==
    CASE fmt = "<I" -> 4
      [] fmt = "<fff" -> 12
      [] fmt = "<H" -> 2

\* One f.write call: what is written (the header slice, the count, the normal of
\* triangle k, vertex j of triangle k, the attribute), with its format, its
\* integer value where it has one, and its size in bytes.
WriteCall(fmt, what, k, j, val, size) ==
    [fmt |-> fmt, what |-> what, k |-> k, j |-> j, val |-> val, size |-> size]

\* RecordCall with the second and third vertex written in the other order.
RecordCall_swapped(k, w) ==
    CASE w = 1 -> WriteCall("<fff", "normal", k, 0, 0, calcsize("<fff"))
      [] w = 2 -> WriteCall("<fff", "vertex", k, 0, 0, calcsize("<fff"))
      [] w = 3 -> WriteCall("<fff", "vertex", k, 2, 0, calcsize("<fff"))
      [] w = 4 -> WriteCall("<fff", "vertex", k, 1, 0, calcsize("<fff"))
      [] w = 5 -> WriteCall("<H", "attr", k, 0, 0, calcsize("<H"))

\* The five writes of the loop body for triangle k, lines 237-248.
RecordCall(k, w) ==
    CASE w = 1 -> WriteCall("<fff", "normal", k, 0, 0, calcsize("<fff"))
      [] w = 2 -> WriteCall("<fff", "vertex", k, 0, 0, calcsize("<fff"))
      [] w = 3 -> WriteCall("<fff", "vertex", k, 1, 0, calcsize("<fff"))
      [] w = 4 -> WriteCall("<fff", "vertex", k, 2, 0, calcsize("<fff"))
      [] w = 5 -> WriteCall("<H", "attr", k, 0, 0, calcsize("<H"))

\* write_binary_stl without the write of the attribute byte count.
write_binary_stl_no_attr(T) ==
    << WriteCall("raw", "header", 0, 0, 0, Len(SubSeq(header, 1, 80))),
       WriteCall("<I", "count", 0, 0, Len(T), calcsize("<I")) >>
    \o [n \in 1..(4 * Len(T)) |-> RecordCall(((n - 1) \div 4) + 1, ((n - 1) % 4) + 1)]

\* write_binary_stl: the f.write calls made for the triangle list T, in order.
write_binary_stl(T) ==
    << WriteCall("raw", "header", 0, 0, 0, Len(SubSeq(header, 1, 80))),
       WriteCall("<I", "count", 0, 0, Len(T), calcsize("<I")) >>
    \o [n \in 1..(5 * Len(T)) |-> RecordCall(((n - 1) \div 5) + 1, ((n - 1) % 5) + 1)]

(***************************************************************************)
(* MAIN: main() -> create_simple_dodecahedron_with_holes() ->              *)
(* write_binary_stl().  hole_diameters is the configured list and noise[f] *)
(* the sign of the rounding error of the angle of vertex 0 of face f.      *)
(***************************************************************************)
HoleConfigs ==
    { HOLE_DIAMETERS,
      [HOLE_DIAMETERS EXCEPT ![1] = 38],
      [HOLE_DIAMETERS EXCEPT ![4] = -26],
      SubSeq(HOLE_DIAMETERS, 1, 11),
      Append(HOLE_DIAMETERS, 5) }

NoisePatterns ==
    { [f \in 1..12 |-> 0],
      [f \in 1..12 |-> 1],
      [f \in 1..12 |-> -1],
      <<1, 1, 1, -1, -1, -1, -1, -1, -1, 1, 1, 1>> }

\* The runs: the program's own hole list under every rounding pattern, and the
\* other lists under the mixed one.
RunConfigs ==
    {<<HOLE_DIAMETERS, n>> : n \in NoisePatterns}
    \cup {<<c, <<1, 1, 1, -1, -1, -1, -1, -1, -1, 1, 1, 1>>>> : c \in HoleConfigs}

RECURSIVE SizeOfRange(_, _, _)
\* The bytes written by calls lo..hi.
SizeOfRange(calls, lo, hi) ==
    IF lo > hi THEN 0
    ELSE IF lo = hi THEN calls[lo].size
    ELSE LET mid == (lo + hi) \div 2
         IN  SizeOfRange(calls, lo, mid) + SizeOfRange(calls, mid + 1, hi)

FileSize(calls) == SizeOfRange(calls, 1, Len(calls))

\* The file is written through a buffer: when the device fails, what is in the
\* file is a prefix of the bytes of the f.write calls that had returned, and it
\* may end inside a call.  CutBytes is the first b bytes of the calls: the
\* calls that fit whole and, with the size that is left, the one cut short.
CutBytes(calls, b) ==
    LET RECURSIVE Whole(_, _)
        Whole(lo, hi) ==
            IF lo = hi THEN lo
            ELSE LET mid == (lo + hi + 1) \div 2
                 IN  IF SizeOfRange(calls, 1, mid) =< b THEN Whole(mid, hi)
                     ELSE Whole(lo, mid - 1)
        n == Whole(0, Len(calls))
        left == b - SizeOfRange(calls, 1, n)
    IN  IF n < Len(calls) /\ left > 0
        THEN Append(SubSeq(calls, 1, n), [calls[n + 1] EXCEPT !.size = left])
        ELSE SubSeq(calls, 1, n)

\* Where an I/O failure may strike the write of main's file: the number of
\* bytes that reached it.
MainFailBytes == {0, 80, 84, 100, 134, 100000}

Vertices == get_dodecahedron_vertices(circumradius)

(***************************************************************************)
(* The two long lists of a run are kept in pieces: all_triangles as the    *)
(* batches the loop iterations appended, file as pages of PageLen write    *)
(* calls.  The lists themselves are the concatenations Triangles and Calls.*)
(***************************************************************************)
RECURSIVE FlattenRange(_, _, _)
FlattenRange(ss, lo, hi) ==
    IF lo > hi THEN <<>>
    ELSE IF lo = hi THEN ss[lo]
    ELSE LET mid == (lo + hi) \div 2
         IN  FlattenRange(ss, lo, mid) \o FlattenRange(ss, mid + 1, hi)

Flatten(ss) == FlattenRange(ss, 1, Len(ss))

PageLen == 250

Paged(s) ==
    <<>> \o [p \in 1..((Len(s) + PageLen - 1) \div PageLen) |->
                SubSeq(s, (p - 1) * PageLen + 1,
                       IF p * PageLen < Len(s) THEN p * PageLen ELSE Len(s))]

\* The accumulator all_triangles as the code's flat list.
Triangles == Flatten(all_triangles)

\* The f.write calls that reached the file, in order.
Calls == Flatten(file)

Init ==
    /\ pc = "start"
    /\ circumradius = VERTEX_DIAMETER \div 2
    /\ \E cfg \in RunConfigs : hole_diameters = cfg[1] /\ noise = cfg[2]
    /\ faces = get_dodecahedron_faces
    /\ face_idx = 0
    /\ knob_idx = 0
    /\ all_triangles = <<>>
    /\ logged = -1
    /\ file = <<>>
    /\ exc = "none"
    /\ MeshIdle

\* Lines 467-474: the empty accumulator and the base geometry.
Generate ==
    /\ pc = "start"
    /\ pc' = "faces"
    /\ all_triangles' = <<>>
    /\ face_idx' = 0
    /\ UNCHANGED <<circumradius, hole_diameters, noise, faces, knob_idx, logged, file, exc>>
    /\ UNCHANGED mesh_vars

\* One iteration of the face loop; HOLE_DIAMETERS[face_idx] raises IndexError
\* on a list that is too short.
FaceStep ==
    /\ pc = "faces"
    /\ face_idx < Len(faces)
    /\ IF face_idx >= Len(hole_diameters)
       THEN /\ pc' = "error"
            /\ exc' = "IndexError"
            /\ UNCHANGED <<all_triangles, face_idx>>
       ELSE /\ all_triangles' = Append(all_triangles,
                        FaceBlock(Vertices, faces, noise[face_idx + 1], face_idx))
            /\ face_idx' = face_idx + 1
            /\ UNCHANGED <<pc, exc>>
    /\ UNCHANGED <<circumradius, hole_diameters, noise, faces, knob_idx, logged, file>>
    /\ UNCHANGED mesh_vars

FacesDone ==
    /\ pc = "faces"
    /\ face_idx = Len(faces)
    /\ pc' = "knobs"
    /\ knob_idx' = 0
    /\ UNCHANGED <<circumradius, hole_diameters, noise, faces, face_idx,
                   all_triangles, logged, file, exc>>
    /\ UNCHANGED mesh_vars

\* KnobStep putting the triangles of the knob in front of the accumulator.
KnobStep_prepend ==
    /\ pc = "knobs"
    /\ knob_idx < Len(Vertices)
    /\ all_triangles' = <<KnobTriangles(knob_idx)>> \o all_triangles
    /\ knob_idx' = knob_idx + 1
    /\ UNCHANGED <<pc, circumradius, hole_diameters, noise, faces, face_idx,
                   logged, file, exc>>
    /\ UNCHANGED mesh_vars

\* One iteration of the knob loop.
KnobStep ==
    /\ pc = "knobs"
    /\ knob_idx < Len(Vertices)
    /\ all_triangles' = Append(all_triangles, KnobTriangles(knob_idx))
    /\ knob_idx' = knob_idx + 1
    /\ UNCHANGED <<pc, circumradius, hole_diameters, noise, faces, face_idx,
                   logged, file, exc>>
    /\ UNCHANGED mesh_vars

\* create_simple_dodecahedron_with_holes returns; main prints the count.
LogCount ==
    /\ pc = "knobs"
    /\ knob_idx = Len(Vertices)
    /\ pc' = "write"
    /\ logged' = Len(Triangles)
    /\ UNCHANGED <<circumradius, hole_diameters, noise, faces, face_idx, knob_idx,
                   all_triangles, file, exc>>
    /\ UNCHANGED mesh_vars

\* write_binary_stl(output_file, all_triangles) runs to its end.
WriteFile ==
    /\ pc = "write"
    /\ pc' = "done"
    /\ file' = Paged(write_binary_stl(Triangles))
    /\ UNCHANGED <<circumradius, hole_diameters, noise, faces, face_idx, knob_idx,
                   all_triangles, logged, exc>>
    /\ UNCHANGED mesh_vars

\* The device fails after b bytes: the exception leaves write_binary_stl and
\* main.
WriteFileFails ==
    /\ pc = "write"
    /\ LET calls == write_binary_stl(Triangles)
       IN  \E b \in MainFailBytes :
               /\ b < FileSize(calls)
               /\ file' = Paged(CutBytes(calls, b))
    /\ pc' = "io_error"
    /\ exc' = "OSError"
    /\ UNCHANGED <<circumradius, hole_diameters, noise, faces, face_idx, knob_idx,
                   all_triangles, logged>>
    /\ UNCHANGED mesh_vars

Next ==
    \/ Generate
    \/ FaceStep
    \/ FacesDone
    \/ KnobStep
    \/ LogCount
    \/ WriteFile
    \/ WriteFileFails

Spec == Init /\ [][Next]_vars


(***************************************************************************)
(* write_binary_stl on its own, write by write, on triangle lists with     *)
(* integer coordinates; the bytes of the file follow from the writes done. *)
(***************************************************************************)
RECURSIVE Pow2(_)
Pow2(n) == IF n = 0 THEN 1 ELSE 2 * Pow2(n - 1)

RECURSIVE Log2(_)
\* floor(log2(x)) for x >= 1.
Log2(x) == IF x < 2 THEN 0 ELSE 1 + Log2(x \div 2)

\* struct.pack('<I', n): 4 bytes, least significant first.
pack_I(n) == <<n % 256, (n \div 256) % 256, (n \div 65536) % 256, (n \div 16777216) % 256>>

\* struct.pack('<H', n)
pack_H(n) == <<n % 256, (n \div 256) % 256>>

\* struct.pack('<f', x) of an integer x: IEEE 754 single precision, round to
\* nearest even, least significant byte first.
pack_f(x) ==
    IF x = 0 THEN <<0, 0, 0, 0>>
    ELSE
    LET a == Abs(x)
        e0 == Log2(a)
        sh == e0 - 23
        q0 == IF sh =< 0 THEN a * Pow2(-sh) ELSE a \div Pow2(sh)
        rem == IF sh =< 0 THEN 0 ELSE a % Pow2(sh)
        half == IF sh =< 0 THEN 1 ELSE Pow2(sh - 1)
        q1 == IF rem > half \/ (rem = half /\ q0 % 2 = 1) THEN q0 + 1 ELSE q0
        e == IF q1 = 16777216 THEN e0 + 1 ELSE e0
        m == IF q1 = 16777216 THEN 0 ELSE q1 - 8388608
        E == e + 127
        sgn == IF x < 0 THEN 1 ELSE 0
    IN  <<m % 256, (m \div 256) % 256, (E % 2) * 128 + (m \div 65536), sgn * 128 + (E \div 2)>>

pack_fff(v) == pack_f(v[1]) \o pack_f(v[2]) \o pack_f(v[3])

\* np.cross(edge1, edge2) on integer vectors.
cross(p, q) == <<p[2] * q[3] - p[3] * q[2], p[3] * q[1] - p[1] * q[3], p[1] * q[2] - p[2] * q[1]>>

\* Natural numbers beyond the range of the integers here: the digits to the
\* base 4096, least significant first.
RECURSIVE ToBig(_)
ToBig(n) == IF n = 0 THEN <<>> ELSE <<n % 4096>> \o ToBig(n \div 4096)

\* The product of two such numbers.
BigMul(a, b) ==
    LET RECURSIVE Column(_, _)
        Column(k, i) ==
            IF i > Len(a) \/ i > k THEN 0
            ELSE (IF k + 1 - i =< Len(b) THEN a[i] * b[k + 1 - i] ELSE 0) + Column(k, i + 1)
        RECURSIVE Carry(_, _)
        Carry(k, c) ==
            IF k > Len(a) + Len(b) THEN (IF c = 0 THEN <<>> ELSE ToBig(c))
            ELSE LET t == Column(k, 1) + c
                 IN  <<t % 4096>> \o Carry(k + 1, t \div 4096)
    IN  Carry(1, 0)

\* The sum of two such numbers.
BigAdd(a, b) ==
    LET n == IF Len(a) > Len(b) THEN Len(a) ELSE Len(b)
        D(x, k) == IF k =< Len(x) THEN x[k] ELSE 0
        RECURSIVE Carry(_, _)
        Carry(k, c) ==
            IF k > n THEN (IF c = 0 THEN <<>> ELSE <<c>>)
            ELSE LET t == D(a, k) + D(b, k) + c
                 IN  <<t % 4096>> \o Carry(k + 1, t \div 4096)
    IN  Carry(1, 0)

\* a =< b for two such numbers.
BigLe(a, b) ==
    LET n == IF Len(a) > Len(b) THEN Len(a) ELSE Len(b)
        D(x, k) == IF k =< Len(x) THEN x[k] ELSE 0
        RECURSIVE From(_)
        From(k) == IF k = 0 THEN TRUE
                   ELSE IF D(a, k) # D(b, k) THEN D(a, k) < D(b, k)
                   ELSE From(k - 1)
    IN  From(n)

\* compute_normal: the cross product of the two edge vectors, divided by its
\* length when that is positive.  A component <<c, n>> of the result is the
\* number c / sqrt(n): c a component of the cross product and n its squared
\* length (<<0, 1>> is 0).
compute_normal(v0, v1, v2) ==
    LET edge1 == <<v1[1] - v0[1], v1[2] - v0[2], v1[3] - v0[3]>>
        edge2 == <<v2[1] - v0[1], v2[2] - v0[2], v2[3] - v0[3]>>
        normal == cross(edge1, edge2)
        norm2 == normal[1] * normal[1] + normal[2] * normal[2] + normal[3] * normal[3]
    IN  IF norm2 > 0 THEN <<<<normal[1], norm2>>, <<normal[2], norm2>>, <<normal[3], norm2>>>>
        ELSE <<<<normal[1], 1>>, <<normal[2], 1>>, <<normal[3], 1>>>>

\* struct.pack('<f', x) of a component x = c / sqrt(n) of a normal, as the
\* code computes it, each step rounded to nearest, ties to even:
\*   line 215  norm = np.linalg.norm(normal): the square root of n in double
\*             precision, S * 2^-k with S of 53 bits;
\*   line 217  normal / norm: the quotient |c| / norm in double precision,
\*             Q * 2^-(52 + t) with Q of 53 bits;
\*   line 240  struct.pack('<fff', ...): Q rounded to the 24 bits of single
\*             precision.
\* The coordinates are integers, so c and n are exact; n is less than 2^31,
\* so a component that is not 0 is 2^-16 or more and t is at most 16.
pack_f_unit(x) ==
    IF x[1] = 0 THEN <<0, 0, 0, 0>>
    ELSE
    LET BigPow2(m) == [i \in 1..(m \div 12 + 1) |-> IF i = m \div 12 + 1 THEN Pow2(m % 12) ELSE 0]
        \* The greatest number of five digits that satisfies P, a condition
        \* that holds up to some number and for none beyond it.
        Greatest(P(_)) ==
            LET RECURSIVE Digit(_, _, _)
                Digit(y, pos, bit) ==
                    IF bit < 0 THEN y
                    ELSE LET z == [y EXCEPT ![pos] = @ + Pow2(bit)]
                         IN  IF P(z) THEN Digit(z, pos, bit - 1) ELSE Digit(y, pos, bit - 1)
                y5 == Digit(<<0, 0, 0, 0, 0>>, 5, 11)
                y4 == Digit(y5, 4, 11)
                y3 == Digit(y4, 3, 11)
                y2 == Digit(y3, 2, 11)
            IN  Digit(y2, 1, 11)
        c == ToBig(Abs(x[1]))
        k == 52 - Log2(x[2]) \div 2
        N == BigMul(ToBig(x[2]), BigPow2(2 * k))
        \* y - 1/2 =< sqrt(N), that is y * y + 1 =< N + y
        S == Greatest(LAMBDA w : BigLe(BigAdd(BigMul(w, w), <<1>>), BigAdd(N, w)))
        t == CHOOSE j \in 0..16 :
                /\ BigLe(S, BigMul(c, BigPow2(k + j)))
                /\ \A i \in 0..(j - 1) : ~ BigLe(S, BigMul(c, BigPow2(k + i)))
        A == BigMul(c, BigPow2(k + 52 + t))
        Q0 == Greatest(LAMBDA w : BigLe(BigMul(w, S), A))
        above == BigMul(BigAdd(BigAdd(Q0, Q0), <<1>>), S)
        twoA == BigAdd(A, A)
        Q == IF ~ BigLe(twoA, above) \/ (BigLe(above, twoA) /\ Q0[1] % 2 = 1)
             THEN BigAdd(Q0, <<1>>) ELSE Q0
        q0 == Q[3] \div 32 + 128 * Q[4] + 524288 * Q[5]
        rem == Q[1] + 4096 * Q[2] + 16777216 * (Q[3] % 32)
        half == 268435456
        q1 == IF rem > half \/ (rem = half /\ q0 % 2 = 1) THEN q0 + 1 ELSE q0
        e == IF q1 = 16777216 THEN 1 - t ELSE -t
        m == IF q1 = 16777216 THEN 0 ELSE q1 - 8388608
        E == e + 127
        sgn == IF x[1] < 0 THEN 1 ELSE 0
    IN  <<m % 256, (m \div 256) % 256, (E % 2) * 128 + (m \div 65536), sgn * 128 + (E \div 2)>>

\* The bytes of one write call that are in the file, T being the triangle
\* list: all of them, or the first call.size of a call that was cut short.
CallBytes(call, T) ==
    LET written ==
            CASE call.what = "header" -> SubSeq(header, 1, 80)
              [] call.what = "count" -> pack_I(call.val)
              [] call.what = "normal" ->
                    LET normal == compute_normal(T[call.k][1], T[call.k][2], T[call.k][3])
                    IN  pack_f_unit(normal[1]) \o pack_f_unit(normal[2])
                            \o pack_f_unit(normal[3])
              [] call.what = "vertex" -> pack_fff(T[call.k][call.j + 1])
              [] call.what = "attr" -> pack_H(call.val)
    IN  SubSeq(written, 1, call.size)

RECURSIVE FileBytes(_, _)
FileBytes(calls, T) ==
    IF calls = <<>> THEN <<>>
    ELSE FileBytes(SubSeq(calls, 1, Len(calls) - 1), T) \o CallBytes(calls[Len(calls)], T)

\* The triangles write_binary_stl is tried on: with a normal along an axis;
\* with a coordinate of 25 bits, which single precision does not hold; with
\* two equal vertices (no normal); with a normal whose square root, quotient
\* and conversion to single precision are all rounded; with negative
\* coordinates of 25 and 26 bits halfway between two single-precision values.
StlTriangles ==
    { << <<0, 0, 0>>, <<1, 0, 0>>, <<0, 1, 0>> >>,
      << <<16777217, 0, 0>>, <<16777217, 2, 0>>, <<16777217, 0, -3>> >>,
      << <<1, 2, 3>>, <<1, 2, 3>>, <<4, 5, 6>> >>,
      << <<0, 0, 0>>, <<4853, 2758, 0>>, <<0, 0, 1>> >>,
      << <<-33554434, 16777219, 5>>, <<-33554431, 16777223, 5>>, <<-33554434, 16777219, 6>> >> }

MaxTris == 2

StlInputs == UNION { [1..n -> StlTriangles] : n \in 0..MaxTris }

InitStl ==
    /\ pc = "stl_open"
    /\ circumradius = VERTEX_DIAMETER \div 2
    /\ hole_diameters = HOLE_DIAMETERS
    /\ noise = [f \in 1..12 |-> 0]
    /\ faces = get_dodecahedron_faces
    /\ face_idx = 0
    /\ knob_idx = 0
    /\ all_triangles \in {<<T>> : T \in StlInputs}
    /\ logged = -1
    /\ file = <<>>
    /\ exc = "none"
    /\ MeshIdle

StlUnchanged == UNCHANGED <<circumradius, hole_diameters, noise, faces, face_idx,
                            knob_idx, all_triangles, logged>>

\* open(filename, 'wb'): the file exists and is empty.
StlOpen ==
    /\ pc = "stl_open"
    /\ pc' = "stl_write"
    /\ file' = <<>>
    /\ exc' = exc
    /\ StlUnchanged
    /\ UNCHANGED mesh_vars

\* The next f.write call succeeds.
StlWrite ==
    /\ pc = "stl_write"
    /\ Len(Calls) < Len(write_binary_stl(Triangles))
    /\ file' = Paged(Append(Calls, write_binary_stl(Triangles)[Len(Calls) + 1]))
    /\ UNCHANGED <<pc, exc>>
    /\ StlUnchanged
    /\ UNCHANGED mesh_vars

\* The with block ends after the last write: the file is closed, the function
\* prints and returns.
StlClose ==
    /\ pc = "stl_write"
    /\ Len(Calls) = Len(write_binary_stl(Triangles))
    /\ pc' = "stl_done"
    /\ UNCHANGED <<file, exc>>
    /\ StlUnchanged
    /\ UNCHANGED mesh_vars

\* open, a write or the close fails: the exception propagates to the caller.
\* Nothing is removed or truncated; of the bytes of the writes done so far a
\* prefix has reached the file (the rest was still buffered).
StlFail ==
    /\ pc \in {"stl_open", "stl_write"}
    /\ pc' = "stl_io_error"
    /\ exc' = "OSError"
    /\ \E b \in 0..FileSize(Calls) : file' = Paged(CutBytes(Calls, b))
    /\ StlUnchanged
    /\ UNCHANGED mesh_vars

NextStl ==
    \/ StlOpen
    \/ StlWrite
    \/ StlClose
    \/ StlFail

SpecStl == InitStl /\ [][NextStl]_vars

(***************************************************************************)
(* THE SHELL: create_dodecahedron_shell(circumradius, wall_thickness,      *)
(* hole_diameters), with wall_thickness = WALL_THICKNESS and a positive    *)
(* circumradius.  Its angles are reduced modulo 2*pi; they are kept in     *)
(* 1/AngleScale of the angle unit, which leaves room for the rounding      *)
(* errors of the two angles that can be equal, that of pentagon vertex 0   *)
(* and that of the rim sample in its direction, and for their order.       *)
(* noise[f] is <<ev, es, evi, esi>>: the errors of vertex 0 and of that    *)
(* sample on the outer and on the inner surface of face f.                 *)
(***************************************************************************)
AngleScale == 8

\* angle % (2 * np.pi), for an angle of the given units plus a rounding error.
norm_angle(units, eps) == (AngleScale * units + eps) % (AngleScale * FULL_TURN)

\* The sign of a number: that of hole_radius (line 271) and of inner_scale
\* (line 263), which turn a point about the centre when they are negative.
Sgn(x) == IF x > 0 THEN 1 ELSE IF x < 0 THEN -1 ELSE 0

\* Lines 320-323 and 330-331 (outer), 368-371 and 375-376 (inner): a0 or a1,
\* the reduced angle of vertex i of a pentagon.  side is 1 for the outer
\* pentagon and the sign of inner_scale for the inner one, which lies opposite
\* (every angle half a turn further) when the circumradius is less than the
\* wall thickness and in the centre, every angle arctan2(0, 0) = 0, when the
\* two are equal.  The rounding error is that of vertex 0.
shell_vertex_angle(vertices, table, ev, f, i, side) ==
    IF side = 0 THEN 0
    ELSE norm_angle(2 * CYLINDER_SEGMENTS * AngleIdx(vertices, table, f, i)
                        + (IF side < 0 THEN FULL_TURN \div 2 ELSE 0),
                    IF i = 0 THEN ev ELSE 0)

\* Lines 361-362: np.linalg.norm(local_proj) > 0.001, the length being
\* |hole_radius * inner_scale|.
inner_rim_visible(diameter, radius) ==
    500 * Abs(diameter) * Abs(radius - WALL_THICKNESS) > radius

\* Lines 315-318, 332 (outer) and 359-366, 377 (inner): ha_norm of rim sample
\* hi, np.arctan2 of its position rim * (cos, sin): rim is the sign of the
\* radius of the rim (hole_radius, times inner_scale on the inner surface) and
\* 0 for a rim whose samples are at the centre or, on the inner surface, not
\* further than 0.001 from it, which all have the angle 0.  A sample of a
\* negative radius lies half a turn further.  The rounding error is that of
\* the sample in the direction of vertex 0 of the pentagon of the given side.
shell_hole_angle(rim, side, es, hi) ==
    IF rim = 0 THEN 0
    ELSE LET units == hole_angle(hi) + (IF rim < 0 THEN FULL_TURN \div 2 ELSE 0)
             vertex0 == IF side < 0 THEN FULL_TURN \div 2 ELSE 0
         IN  norm_angle(units, IF units % FULL_TURN = vertex0 THEN es ELSE 0)

\* Lines 327-339 and 373-384: the samples between the two reduced angles.
shell_hole_indices(a0, a1, rim, side, es) ==
    LET Between(hi) ==
            LET ha == shell_hole_angle(rim, side, es, hi)
            IN  IF a0 > a1 THEN ha >= a1 /\ ha =< a0
                ELSE ha >= a0 /\ ha =< a1
    IN  SelectSeq(RangeSeq(CYLINDER_SEGMENTS), Between)

\* inner_vertices[face][i]
PVI(table, f, i) == <<"VI", table[f + 1][(i % 5) + 1], 0>>

\* Lines 309-351: the outer triangles of pentagon edge i of face f.
ShellOuterEdge(vertices, table, nz, diameter, f, i) ==
    LET a0 == shell_vertex_angle(vertices, table, nz[1], f, i, 1)
        a1 == shell_vertex_angle(vertices, table, nz[1], f, (i + 1) % 5, 1)
        idx == shell_hole_indices(a0, a1, Sgn(diameter), 1, nz[2])
        n == Len(idx)
    IN  IF n = 0 THEN <<>>
        ELSE << <<PV(table, f, i), HO(f, idx[1]), PV(table, f, i + 1)>> >>
             \o [j \in 1..(n - 1) |-> <<PV(table, f, i), HO(f, idx[j + 1]), HO(f, idx[j])>>]

\* Lines 354-393: the inner triangles of pentagon edge i of face f.
ShellInnerEdge(vertices, table, nz, diameter, radius, f, i) ==
    LET side == Sgn(radius - WALL_THICKNESS)
        rim == IF inner_rim_visible(diameter, radius) THEN Sgn(diameter) * side ELSE 0
        a0 == shell_vertex_angle(vertices, table, nz[3], f, i, side)
        a1 == shell_vertex_angle(vertices, table, nz[3], f, (i + 1) % 5, side)
        idx == shell_hole_indices(a0, a1, rim, side, nz[4])
        n == Len(idx)
    IN  IF n = 0 THEN <<>>
        ELSE << <<PVI(table, f, i), PVI(table, f, i + 1), HI(f, idx[1])>> >>
             \o [j \in 1..(n - 1) |-> <<PVI(table, f, i), HI(f, idx[j]), HI(f, idx[j + 1])>>]

\* Lines 396-404: the hole wall.
ShellHoleWall(f) ==
    [k \in 1..(2 * CYLINDER_SEGMENTS) |->
        LET i == (k - 1) \div 2
            i_next == (i + 1) % CYLINDER_SEGMENTS
        IN  IF k % 2 = 1 THEN <<HO(f, i), HI(f, i), HO(f, i_next)>>
            ELSE <<HO(f, i_next), HI(f, i), HI(f, i_next)>>]

\* Lines 406-421: the whole pentagon, outer and inner.
ShellWholePentagon(table, f) ==
    [i \in 1..3 |-> <<PV(table, f, 0), PV(table, f, i), PV(table, f, i + 1)>>]
    \o [i \in 1..3 |-> <<PVI(table, f, 0), PVI(table, f, i + 1), PVI(table, f, i)>>]

\* One iteration of the face loop, lines 270-421.
ShellFaceBlock(vertices, table, nz, diameter, radius, f) ==
    IF hole_fits(diameter, inradius(vertices, table, f))
    THEN ShellOuterEdge(vertices, table, nz, diameter, f, 0)
         \o ShellOuterEdge(vertices, table, nz, diameter, f, 1)
         \o ShellOuterEdge(vertices, table, nz, diameter, f, 2)
         \o ShellOuterEdge(vertices, table, nz, diameter, f, 3)
         \o ShellOuterEdge(vertices, table, nz, diameter, f, 4)
         \o ShellInnerEdge(vertices, table, nz, diameter, radius, f, 0)
         \o ShellInnerEdge(vertices, table, nz, diameter, radius, f, 1)
         \o ShellInnerEdge(vertices, table, nz, diameter, radius, f, 2)
         \o ShellInnerEdge(vertices, table, nz, diameter, radius, f, 3)
         \o ShellInnerEdge(vertices, table, nz, diameter, radius, f, 4)
         \o ShellHoleWall(f)
    ELSE ShellWholePentagon(table, f)

\* tuple(sorted([face[i], face[(i + 1) % 5]]))
SortedPair(a, b) == IF a =< b THEN <<a, b>> ELSE <<b, a>>

\* Lines 425-429: the set of the edges of the faces of the table.
Edges(table) ==
    {SortedPair(table[f][i], table[f][(i % 5) + 1]) : f \in 1..Len(table), i \in 1..5}

\* The number of faces of the table that have the edge e.
FacesWithEdge(table, e) ==
    Cardinality({f \in 1..Len(table) :
                    \E i \in 1..5 : SortedPair(table[f][i], table[f][(i % 5) + 1]) = e})

\* The number of faces of the table that have the vertex index v.
FacesWithVertex(table, v) ==
    Cardinality({f \in 1..Len(table) : \E i \in 1..5 : table[f][i] = v})

\* Lines 438-439: the two wall triangles of the edge e.
EdgeWall(e) ==
    << << <<"V", e[1], 0>>, <<"VI", e[2], 0>>, <<"VI", e[1], 0>> >>,
       << <<"V", e[1], 0>>, <<"V", e[2], 0>>, <<"VI", e[2], 0>> >> >>

\* Line 431: for v1_idx, v2_idx in edges: the edges of the set es in the order
\* in which CPython (3.8 and later) iterates over the set of the thirty edges:
\* that of the slots of its hash table, which the hashes of the tuples fix.  It
\* is the same after any order of insertion met here.
EdgeOrder(es) ==
    LET order ==
            << <<6, 18>>, <<6, 15>>, <<3, 13>>, <<4, 18>>, <<5, 19>>, <<9, 11>>,
               <<0, 8>>, <<1, 9>>, <<1, 12>>, <<18, 19>>, <<7, 19>>, <<4, 8>>,
               <<4, 14>>, <<5, 9>>, <<0, 16>>, <<2, 10>>, <<2, 16>>, <<2, 13>>,
               <<1, 17>>, <<6, 10>>, <<7, 15>>, <<12, 14>>, <<3, 11>>, <<3, 17>>,
               <<5, 14>>, <<8, 10>>, <<0, 12>>, <<13, 15>>, <<7, 11>>, <<16, 17>> >>
    IN  SelectSeq(order, LAMBDA e : e \in es)

\* Lines 431-439: the edge walls, for the edges in the given order.
EdgeWallTriangles(order) ==
    [k \in 1..(2 * Len(order)) |-> EdgeWall(order[(k + 1) \div 2])[2 - (k % 2)]]

ShellRadii == {4, VERTEX_DIAMETER \div 2, 100}

ShellHoleConfigs ==
    { HOLE_DIAMETERS,
      [HOLE_DIAMETERS EXCEPT ![1] = 38, ![2] = 0],
      SubSeq(HOLE_DIAMETERS, 1, 11),
      [HOLE_DIAMETERS EXCEPT ![1] = -26] }

\* The rounding errors <<ev, es, evi, esi>> of the twelve faces in a call with
\* the given circumradius and hole diameters, as the code's arithmetic gives
\* them: they follow from the floating-point arithmetic of the angles and
\* differ with the order in which np.dot sums its three products (first to
\* last, last to first, fused multiply-add), which gives up to three patterns
\* per call.  Only the order of the numbers matters: a negative error of an
\* angle 0 makes the reduced angle 2*pi or just less; the errors of a face are
\* ordered as their numbers are.  <<0, 0, 0, 0>> stands for a face whose hole
\* does not fit, where no angle is computed (every face at circumradius 4,
\* all but the first at 2 and 3).
ShellRounding(radius, diameters) ==
    LET none == [f \in 1..12 |-> <<0, 0, 0, 0>>]
        at40 ==
            << << <<-2, -2, -2, 1>>, <<-2, 1, -2, 1>>, <<-2, -2, -2, -2>>, <<2, 0, 2, 3>>,
                  <<2, -1, 2, -1>>, <<2, 3, 2, 3>>, <<2, -1, 2, -1>>, <<2, -1, 2, 3>>,
                  <<2, 3, 2, 3>>, <<-2, -2, -2, 1>>, <<-2, 1, -2, 1>>, <<-2, 1, -2, -2>> >>,
               << <<-2, -2, -2, 1>>, <<-2, 1, -2, 1>>, <<-2, -2, -2, -2>>, <<2, 0, 2, 3>>,
                  <<2, -1, 2, 0>>, <<2, 3, 2, 3>>, <<2, -1, 2, -1>>, <<2, -1, 2, 3>>,
                  <<2, 3, 2, 3>>, <<-2, -2, -2, 1>>, <<-2, 1, -2, 1>>, <<-2, 1, -2, -2>> >>,
               << <<-2, -2, -2, 1>>, <<-2, 1, -2, 1>>, <<-2, -2, -2, -2>>, <<2, -1, 2, 3>>,
                  <<2, -1, 2, 1>>, <<2, 3, 2, 3>>, <<2, -1, 2, -1>>, <<2, -1, 2, 3>>,
                  <<2, 3, 2, 3>>, <<-2, -2, -2, 1>>, <<-2, 1, -2, 1>>, <<-2, 1, -2, -2>> >> >>
    IN  CASE radius = VERTEX_DIAMETER \div 2 /\ diameters \in ShellHoleConfigs
                                             /\ diameters[1] >= 0 ->
                {at40[1], at40[2], at40[3]}
          [] radius = VERTEX_DIAMETER \div 2 /\ diameters[1] = -26 ->
                { [at40[1] EXCEPT ![1] = <<-2, 0, -2, -2>>],
                  [at40[2] EXCEPT ![1] = <<-2, 0, -2, -2>>],
                  [at40[3] EXCEPT ![1] = <<-2, 1, -2, -2>>] }
          [] radius = 100 /\ diameters = HOLE_DIAMETERS ->
        { << <<-2, 1, -2, 1>>, <<-2, -2, -2, -2>>, <<-2, -2, 0, 0>>, <<0, 1, -2, -2>>,
             <<2, -1, -2, 1>>, <<0, 1, 0, -1>>, <<0, 0, -2, -3>>, <<2, -1, -2, -2>>,
             <<0, -1, 0, -1>>, <<-2, -3, -2, 1>>, <<-2, -3, -2, -3>>, <<-2, 1, 0, 1>> >>,
          << <<-2, 1, 0, 1>>, <<-2, -2, -2, -2>>, <<-2, -2, -2, 1>>, <<0, 1, 0, -1>>,
             <<0, -1, -2, 1>>, <<2, 3, -2, -2>>, <<0, 0, 0, -1>>, <<0, -1, -2, -2>>,
             <<2, -1, -2, -2>>, <<-2, -3, 0, 1>>, <<-2, -3, -2, -3>>, <<-2, 1, -2, 1>> >>,
          << <<-2, 1, 2, 3>>, <<-2, -2, -2, -2>>, <<-2, -2, -2, -2>>, <<-2, 1, -2, -2>>,
             <<-2, -2, -2, 1>>, <<-2, 1, 2, -1>>, <<-2, -2, -2, -3>>, <<-2, -2, -2, -2>>,
             <<-2, -2, 2, -1>>, <<-2, -3, 2, 3>>, <<-2, -3, -2, -3>>, <<-2, 1, -2, 1>> >> }
          [] radius = 4 /\ diameters = HOLE_DIAMETERS -> {none}
          [] radius = WALL_THICKNESS /\ diameters = [HOLE_DIAMETERS EXCEPT ![1] = 1] ->
                { [none EXCEPT ![1] = <<-2, 1, 0, 0>>],
                  [none EXCEPT ![1] = <<0, 1, 0, 0>>],
                  [none EXCEPT ![1] = <<2, 3, 0, 0>>] }
          [] radius = WALL_THICKNESS - 1 /\ diameters = [HOLE_DIAMETERS EXCEPT ![1] = 1] ->
                { [none EXCEPT ![1] = <<-2, 0, 0, 0>>] }

\* The calls: the program's hole list at every radius, the other lists at the
\* program's radius, and a shell whose circumradius is the wall thickness or
\* less, with a hole of 1 mm in the first face.
ShellRuns ==
    LET calls ==
            {<<r, HOLE_DIAMETERS>> : r \in ShellRadii}
            \cup {<<VERTEX_DIAMETER \div 2, h>> : h \in ShellHoleConfigs}
            \cup {<<r, [HOLE_DIAMETERS EXCEPT ![1] = 1]>> :
                    r \in {WALL_THICKNESS - 1, WALL_THICKNESS}}
    IN  UNION { {<<c[1], c[2], n>> : n \in ShellRounding(c[1], c[2])} : c \in calls }

InitShell ==
    /\ pc = "shell_start"
    /\ \E run \in ShellRuns :
        /\ circumradius = run[1]
        /\ hole_diameters = run[2]
        /\ noise = run[3]
    /\ faces = get_dodecahedron_faces
    /\ face_idx = 0
    /\ knob_idx = 0
    /\ all_triangles = <<>>
    /\ logged = -1
    /\ file = <<>>
    /\ exc = "none"
    /\ MeshIdle

ShellUnchanged == UNCHANGED <<circumradius, hole_diameters, noise, faces, knob_idx,
                              logged, file>>

\* Lines 259-267: the empty accumulator and the geometry; faces is the table
\* of get_dodecahedron_faces(), the only table the routine works on.
ShellGeometry ==
    /\ pc = "shell_start"
    /\ pc' = "shell_faces"
    /\ all_triangles' = <<>>
    /\ face_idx' = 0
    /\ exc' = exc
    /\ ShellUnchanged
    /\ UNCHANGED mesh_vars

\* One iteration of the face loop; hole_diameters[face_idx] raises IndexError
\* on a list that is too short.
ShellFaceStep ==
    /\ pc = "shell_faces"
    /\ face_idx < Len(faces)
    /\ IF face_idx >= Len(hole_diameters)
       THEN /\ pc' = "shell_error"
            /\ exc' = "IndexError"
            /\ UNCHANGED <<all_triangles, face_idx>>
       ELSE /\ all_triangles' = Append(all_triangles,
                    ShellFaceBlock(Vertices, faces, noise[face_idx + 1],
                                   hole_diameters[face_idx + 1], circumradius, face_idx))
            /\ face_idx' = face_idx + 1
            /\ UNCHANGED <<pc, exc>>
    /\ ShellUnchanged
    /\ UNCHANGED mesh_vars

\* Lines 423-441: the edge walls, and the return of the accumulator.
ShellEdgeWalls ==
    /\ pc = "shell_faces"
    /\ face_idx = Len(faces)
    /\ all_triangles' = Append(all_triangles, EdgeWallTriangles(EdgeOrder(Edges(faces))))
    /\ pc' = "shell_done"
    /\ UNCHANGED <<face_idx, exc>>
    /\ ShellUnchanged
    /\ UNCHANGED mesh_vars

NextShell ==
    \/ ShellGeometry
    \/ ShellFaceStep
    \/ ShellEdgeWalls

SpecShell == InitShell /\ [][NextShell]_vars

(***************************************************************************)
(* THE MESH PRIMITIVES on their own: create_sphere_mesh(center, radius,    *)
(* segments) and create_cylinder_mesh(center, direction, radius, height,   *)
(* segments).  A vertex is kept as its place in the parametrisation, a     *)
(* triangle as three indices (from 0) into the vertex list; centre, radius,*)
(* direction and height move the vertices and leave the indices alone.     *)
(***************************************************************************)
\* Lines 126-133: vertex i * segments + j is the one of latitude row i and
\* longitude column j.
sphere_vertices(n) ==
    [k \in 1..((n + 1) * n) |-> <<"sphere", (k - 1) \div n, (k - 1) % n>>]

\* Lines 173-188: the bottom centre, the bottom circle, the top centre, the top
\* circle.
cylinder_vertices(n) ==
    << <<"base_center", 0, 0>> >>
    \o [i \in 1..n |-> <<"bottom", i - 1, 0>>]
    \o << <<"top_center", 0, 0>> >>
    \o [i \in 1..n |-> <<"top", i - 1, 0>>]

\* Lines 190-206: the triangles of create_cylinder_mesh: the bottom cap, the
\* top cap, then two per side quad.
create_cylinder_mesh(n) ==
    LET top_center_idx == n + 1
    IN  [i \in 1..n |-> <<0, 1 + (i % n), 1 + (i - 1)>>]
        \o [i \in 1..n |->
                <<top_center_idx, top_center_idx + 1 + (i - 1), top_center_idx + 1 + (i % n)>>]
        \o [k \in 1..(2 * n) |->
                LET i == (k - 1) \div 2
                    b1 == 1 + i
                    b2 == 1 + ((i + 1) % n)
                    t1 == top_center_idx + 1 + i
                    t2 == top_center_idx + 1 + ((i + 1) % n)
                IN  IF k % 2 = 1 THEN <<b1, t1, b2>> ELSE <<b2, t1, t2>>]

MaxSegments == 5

\* The segment counts tried: the small ones, and the program's own.
SphereSegments == (1..MaxSegments) \cup {SPHERE_SEGMENTS}

CylinderSegments == (1..MaxSegments) \cup {CYLINDER_SEGMENTS}

InitMesh ==
    /\ \/ pc = "sphere_start" /\ segments \in SphereSegments
       \/ pc = "cylinder_start" /\ segments \in CylinderSegments
    /\ mesh_vertices = <<>>
    /\ triangles = <<>>
    /\ loop_i = 0
    /\ circumradius = VERTEX_DIAMETER \div 2
    /\ hole_diameters = HOLE_DIAMETERS
    /\ noise = [f \in 1..12 |-> 0]
    /\ faces = get_dodecahedron_faces
    /\ face_idx = 0
    /\ knob_idx = 0
    /\ all_triangles = <<>>
    /\ logged = -1
    /\ file = <<>>
    /\ exc = "none"

MeshUnchanged == UNCHANGED <<circumradius, hole_diameters, noise, faces, face_idx,
                             knob_idx, all_triangles, logged, file, exc, segments>>

\* Lines 122-133: the empty lists, then the vertex loops.
SphereVertices ==
    /\ pc = "sphere_start"
    /\ pc' = "sphere_triangles"
    /\ mesh_vertices' = sphere_vertices(segments)
    /\ triangles' = <<>>
    /\ loop_i' = 0
    /\ MeshUnchanged

\* Lines 136-143: one iteration of the inner triangle loop, the quad of row
\* loop_i \div segments and column loop_i % segments.
SphereQuad ==
    /\ pc = "sphere_triangles"
    /\ loop_i < segments * segments
    /\ triangles' = triangles
            \o SubSeq(create_sphere_mesh(segments), 2 * loop_i + 1, 2 * loop_i + 2)
    /\ loop_i' = loop_i + 1
    /\ UNCHANGED <<pc, mesh_vertices>>
    /\ MeshUnchanged

\* Line 145: return np.array(vertices), triangles.
SphereReturn ==
    /\ pc = "sphere_triangles"
    /\ loop_i = segments * segments
    /\ pc' = "sphere_done"
    /\ UNCHANGED <<mesh_vertices, triangles, loop_i>>
    /\ MeshUnchanged

\* Lines 149-188: the empty lists, the basis, then the vertices.
CylinderVertices ==
    /\ pc = "cylinder_start"
    /\ pc' = "cylinder_triangles"
    /\ mesh_vertices' = cylinder_vertices(segments)
    /\ triangles' = <<>>
    /\ loop_i' = 0
    /\ MeshUnchanged

\* Lines 190-206: one iteration of the three triangle loops: iterations
\* 0..n-1 are the bottom cap, n..2n-1 the top cap (a triangle each), 2n..3n-1
\* the side (two triangles each).
CylinderStep ==
    /\ pc = "cylinder_triangles"
    /\ loop_i < 3 * segments
    /\ triangles' = triangles
            \o SubSeq(create_cylinder_mesh(segments), Len(triangles) + 1,
                      Len(triangles) + (IF loop_i < 2 * segments THEN 1 ELSE 2))
    /\ loop_i' = loop_i + 1
    /\ UNCHANGED <<pc, mesh_vertices>>
    /\ MeshUnchanged

\* Line 208: return np.array(vertices), triangles.
CylinderReturn ==
    /\ pc = "cylinder_triangles"
    /\ loop_i = 3 * segments
    /\ pc' = "cylinder_done"
    /\ UNCHANGED <<mesh_vertices, triangles, loop_i>>
    /\ MeshUnchanged

NextMesh ==
    \/ SphereVertices
    \/ SphereQuad
    \/ SphereReturn
    \/ CylinderVertices
    \/ CylinderStep
    \/ CylinderReturn

SpecMesh == InitMesh /\ [][NextMesh]_vars


(***************************************************************************)
(* add_vertex_knobs(all_triangles, circumradius, knob_radius) on its own,  *)
(* with knob_radius = KNOB_RADIUS.  main does not call it: it has the loop *)
(* inline, with another centre.  A point <<"KV", v, i>> is vertex i of the *)
(* sphere mesh of the knob this function puts at dodecahedron vertex v,    *)
(* <<"K", v, i>> that of the knob of main's loop.                          *)
(***************************************************************************)
\* The distance from the dodecahedron vertex to the centre of its knob, in
\* 1/10 mm: knob_radius * 0.5 in add_vertex_knobs (line 450), KNOB_RADIUS * 0.3
\* in the loop of main (line 568).
knob_center_offset(kind, knob_radius) ==
    IF kind = "KV" THEN 5 * knob_radius ELSE 3 * knob_radius

\* Lines 452-460: the triangles of the knob at vertex v.
VertexKnobTriangles(v) ==
    LET tris == create_sphere_mesh(SPHERE_SEGMENTS)
    IN  [t \in 1..Len(tris) |->
            <<<<"KV", v, tris[t][1]>>, <<"KV", v, tris[t][2]>>, <<"KV", v, tris[t][3]>>>>]

\* Line 445 and the call: vertices = get_dodecahedron_vertices(circumradius).
\* The lists the function is given: the empty one, one of a whole pentagon,
\* and one that has the knobs of main's loop already.
InitKnobs ==
    /\ pc = "add_knobs"
    /\ circumradius \in ShellRadii
    /\ all_triangles \in { <<>>,
                           <<ShellWholePentagon(get_dodecahedron_faces, 0)>>,
                           [v \in 1..20 |-> KnobTriangles(v - 1)] }
    /\ hole_diameters = HOLE_DIAMETERS
    /\ noise = [f \in 1..12 |-> 0]
    /\ faces = get_dodecahedron_faces
    /\ face_idx = 0
    /\ knob_idx = 0
    /\ logged = -1
    /\ file = <<>>
    /\ exc = "none"
    /\ MeshIdle

\* Lines 447-460: one iteration of the loop over the vertices.
AddKnobStep ==
    /\ pc = "add_knobs"
    /\ knob_idx < Len(Vertices)
    /\ all_triangles' = Append(all_triangles, VertexKnobTriangles(knob_idx))
    /\ knob_idx' = knob_idx + 1
    /\ UNCHANGED <<pc, circumradius, hole_diameters, noise, faces, face_idx,
                   logged, file, exc>>
    /\ UNCHANGED mesh_vars

\* Line 462: return all_triangles, the list it was given.
AddKnobsReturn ==
    /\ pc = "add_knobs"
    /\ knob_idx = Len(Vertices)
    /\ pc' = "add_knobs_done"
    /\ UNCHANGED <<circumradius, hole_diameters, noise, faces, face_idx, knob_idx,
                   all_triangles, logged, file, exc>>
    /\ UNCHANGED mesh_vars

NextKnobs ==
    \/ AddKnobStep
    \/ AddKnobsReturn

SpecKnobs == InitKnobs /\ [][NextKnobs]_vars

(***************************************************************************)
(* Reading a mesh: edges, and the triangles of one face.                   *)
(***************************************************************************)
DirectedEdges(t) == {<<t[1], t[2]>>, <<t[2], t[3]>>, <<t[3], t[1]>>}

\* The number of triangles of T that traverse the edge from a to b.
EdgeUse(T, a, b) == Cardinality({k \in 1..Len(T) : <<a, b>> \in DirectedEdges(T[k])})

\* The number of triangles of T with the undirected edge {a, b}.
EdgeCount(T, a, b) == EdgeUse(T, a, b) + EdgeUse(T, b, a)

PointSet(t) == {t[1], t[2], t[3]}

\* Triangle t has a point of the given kind that belongs to face f.
HasFacePoint(t, kind, f) == \E p \in PointSet(t) : p[1] = kind /\ p[2] = f

HasKind(t, kind) == \E p \in PointSet(t) : p[1] = kind

\* The outer-surface triangles of face f in T: those joining pentagon vertices
\* to the outer rim of f.
FaceTrisOf(T, f) ==
    SelectSeq(T, LAMBDA t : HasKind(t, "V") /\ HasFacePoint(t, "HO", f))

\* The triangles of T that have a rim or inner-centre point of face f.
HoleTrisOf(T, f) ==
    SelectSeq(T, LAMBDA t : HasFacePoint(t, "HO", f) \/ HasFacePoint(t, "HI", f)
                            \/ HasFacePoint(t, "IC", f))

\* The faces the generator has finished.
DoneFaces == 0..(face_idx - 1)

(***************************************************************************)
(* Positions in the plane of a face, in 1/100 mm, in the basis             *)
(* (basis_x, basis_y).  basis_x x basis_y is the outward normal, so a      *)
(* triangle of the face plane has a normal along the outward normal        *)
(* exactly when it is counter-clockwise in this basis, and its centroid,   *)
(* lying in the plane, has a positive component along the outward normal.  *)
(***************************************************************************)
\* np.cos(2 * pi * k / 160) * 10000 for k = 0..40.
CosTable ==
    << 10000, 9992, 9969, 9931, 9877, 9808, 9724, 9625, 9511, 9382,
       9239, 9081, 8910, 8725, 8526, 8315, 8090, 7853, 7604, 7343,
       7071, 6788, 6494, 6191, 5878, 5556, 5225, 4886, 4540, 4187,
       3827, 3461, 3090, 2714, 2334, 1951, 1564, 1175, 785, 393,
       0 >>

Cos160(k) ==
    LET a == k % 160
    IN  IF a =< 40 THEN CosTable[a + 1]
        ELSE IF a =< 80 THEN -CosTable[80 - a + 1]
        ELSE IF a =< 120 THEN -CosTable[a - 80 + 1]
        ELSE CosTable[160 - a + 1]

Sin160(k) == Cos160(k - 40)

\* np.linalg.norm(face_verts[0] - center): l0.l0 / 75 square mm for
\* l0 = 5 * (v0 - center) in units of 1/sqrt(3) mm.
pentagon_radius(vertices, table, f) ==
    LET l0 == Local5(vertices, table, f, 0)
        n == VDot(l0, l0)
    IN  ISqrt(((n[1] + ((n[2] * PhiMilli) \div 1000)) * 400) \div 3)

\* The index in face f of solid vertex v.
IndexInFace(table, f, v) == CHOOSE i \in 0..4 : table[f + 1][i + 1] = v

\* The position of a point of face f: a pentagon vertex or an outer rim sample.
Pos2D(vertices, table, diameters, f, p) ==
    IF p[1] = "V"
    THEN LET a == 32 * AngleIdx(vertices, table, f, IndexInFace(table, f, p[2]))
             r == pentagon_radius(vertices, table, f)
         IN  <<(r * Cos160(a)) \div 10000, (r * Sin160(a)) \div 10000>>
    ELSE LET a == 5 * p[3]
             r == hole_radius(diameters[f + 1])
         IN  <<(r * Cos160(a)) \div 10000, (r * Sin160(a)) \div 10000>>

\* The component along the outward normal of (v1 - v0) x (v2 - v0), for a
\* triangle of the plane of face f.
Orient2D(vertices, table, diameters, f, t) ==
    LET p0 == Pos2D(vertices, table, diameters, f, t[1])
        p1 == Pos2D(vertices, table, diameters, f, t[2])
        p2 == Pos2D(vertices, table, diameters, f, t[3])
    IN  (p1[1] - p0[1]) * (p2[2] - p0[2]) - (p1[2] - p0[2]) * (p2[1] - p0[1])


(***************************************************************************)
(* Reading an STL file back, per the format: 80 header bytes, a 4-byte     *)
(* count, then 50-byte records (normal, three vertices, attribute).        *)
(***************************************************************************)
unpack_I(b) == b[1] + 256 * b[2] + 65536 * b[3] + 16777216 * b[4]

unpack_H(b) == b[1] + 256 * b[2]

\* The value of a single-precision float that is an integer.
unpack_f(b) ==
    LET E == (b[4] % 128) * 2 + (b[3] \div 128)
        m == (b[3] % 128) * 65536 + b[2] * 256 + b[1]
        mant == 8388608 + m
        e == E - 127
        mag == IF E = 0 THEN 0
               ELSE IF e >= 23 THEN mant * Pow2(e - 23)
               ELSE mant \div Pow2(23 - e)
    IN  IF b[4] >= 128 THEN -mag ELSE mag

ParseCount(bytes) == unpack_I(SubSeq(bytes, 81, 84))

\* Field number fld (0 the normal, 1..3 the vertices) of record k (from 1).
ParseVector(bytes, k, fld) ==
    LET off == 84 + 50 * (k - 1) + 12 * fld
    IN  <<unpack_f(SubSeq(bytes, off + 1, off + 4)),
          unpack_f(SubSeq(bytes, off + 5, off + 8)),
          unpack_f(SubSeq(bytes, off + 9, off + 12))>>

ParseAttr(bytes, k) == unpack_H(SubSeq(bytes, 84 + 50 * k - 1, 84 + 50 * k))

\* y is the single-precision value nearest to the integer x, the one with the
\* even last bit of two that are equally near: x itself when x has at most 24
\* significant bits, else a multiple of the spacing u of the single-precision
\* values from 2^e to 2^(e+1), where 2^e =< |x| < 2^(e+1).
NearestSingle(y, x) ==
    IF Abs(x) =< 16777216 THEN y = x
    ELSE LET u == Pow2(Log2(Abs(x)) - 23)
         IN  /\ y % u = 0
             /\ 2 * Abs(y - x) =< u
             /\ 2 * Abs(y - x) = u => (y \div u) % 2 = 0



(***************************************************************************)
(* The properties.                                                         *)
(***************************************************************************)
BodyComplete == pc = "knobs" /\ knob_idx = 0

\* C1: in the body mesh (all 12 faces generated, no knob yet) every undirected
\* edge is an edge of exactly two triangles, which traverse it in opposite
\* directions.
C1_BodyManifold ==
    BodyComplete =>
        LET T == Triangles
        IN  \A k \in 1..Len(T) :
                \A e \in DirectedEdges(T[k]) :
                    /\ EdgeUse(T, e[1], e[2]) = 1
                    /\ EdgeUse(T, e[2], e[1]) = 1

\* C2: for every finished face whose hole is below the fallback threshold, the
\* outer-surface triangles cover the annulus without gaps or overlaps: each
\* pentagon edge and each rim segment is an edge of exactly one of them, and no
\* two of them have the same three points.
C2_AnnulusCovered ==
    \A f \in DoneFaces :
        hole_fits(hole_diameters[f + 1], inradius(Vertices, faces, f)) =>
            LET ft == FaceTrisOf(Triangles, f)
            IN  /\ \A i \in 0..4 :
                        EdgeCount(ft, PV(faces, f, i), PV(faces, f, i + 1)) = 1
                /\ \A k \in 0..(CYLINDER_SEGMENTS - 1) :
                        EdgeCount(ft, HO(f, k), HO(f, (k + 1) % CYLINDER_SEGMENTS)) = 1
                /\ \A k1, k2 \in 1..Len(ft) :
                        k1 < k2 => PointSet(ft[k1]) # PointSet(ft[k2])

\* C3: every outer-surface triangle of a finished face is wound
\* counter-clockwise seen from outside: its normal (v1 - v0) x (v2 - v0) has a
\* positive dot product with its centroid.
C3_OuterTrianglesOutward ==
    \A f \in DoneFaces :
        LET ft == FaceTrisOf(Triangles, f)
        IN  \A k \in 1..Len(ft) :
                Orient2D(Vertices, faces, hole_diameters, f, ft[k]) > 0

\* C4: in main's mesh a finished face whose hole radius is at least 0.95 times
\* the inradius has exactly 6 triangles, among them the outer fan of 3 with
\* face vertex 0 as apex, and no annulus, rim, inner-cap or hole-wall triangle.
C4_WholePentagonFallback ==
    \A f \in DoneFaces :
        ~hole_fits(hole_diameters[f + 1], inradius(Vertices, faces, f)) =>
            LET T == Triangles
            IN  /\ Len(all_triangles[f + 1]) = 6
                /\ Len(HoleTrisOf(T, f)) = 0
                /\ \A i \in 1..3 :
                    \E k \in 1..Len(T) :
                        T[k] = <<PV(faces, f, 0), PV(faces, f, i), PV(faces, f, i + 1)>>

BadConfig ==
    \/ Len(hole_diameters) # Len(get_dodecahedron_faces)
    \/ \E i \in 1..Len(hole_diameters) : hole_diameters[i] < 0

\* C5: with a hole-diameter list that has not exactly 12 entries or has a
\* negative entry, no triangle is ever appended, no byte is ever written and
\* the run does not complete.
C5_BadConfigRejected ==
    BadConfig => /\ all_triangles = <<>>
                 /\ file = <<>>
                 /\ pc # "done"

\* The file holds the header, the count N and N complete 50-byte records.
CompleteFile(bytes) ==
    /\ Len(bytes) >= 84
    /\ Len(bytes) = 84 + 50 * ParseCount(bytes)

\* C6: after a failed write the failure has reached the caller and the file is
\* empty or complete, never a partial file.
C6_NoPartialFile ==
    pc = "stl_io_error" =>
        /\ exc = "OSError"
        /\ \/ file = <<>>
           \/ CompleteFile(FileBytes(Calls, Triangles))

\* C8: after a successful run of main the file is the 80-byte header, the 4-byte
\* count N and N records of four 12-byte float triples and a 2-byte attribute 0
\* (84 + 50 * N bytes), N being the length of the accumulator and the logged
\* count, and N > 0.
C8_FileLayout ==
    pc = "done" =>
        LET N == Len(Triangles)
            calls == Calls
        IN  /\ N > 0
            /\ logged = N
            /\ Len(calls) = 2 + 5 * N
            /\ calls[1].what = "header" /\ calls[1].size = 80
            /\ calls[2].what = "count" /\ calls[2].size = 4 /\ calls[2].val = N
            /\ \A n \in 3..Len(calls) :
                LET call == calls[n]
                    w == ((n - 3) % 5) + 1
                IN  /\ call.k = ((n - 3) \div 5) + 1
                    /\ w = 1 => call.what = "normal"
                    /\ w \in 2..4 => call.what = "vertex" /\ call.j = w - 2
                    /\ w \in 1..4 => call.fmt = "<fff" /\ call.size = 12
                    /\ w = 5 => call.what = "attr" /\ call.size = 2 /\ call.val = 0
            /\ FileSize(calls) = 84 + 50 * N

C8_Witness ==
    /\ pc = "done"
    /\ logged = 11836
    /\ Len(Calls) = 59182
    /\ hole_diameters = HOLE_DIAMETERS

\* C9 as stated: parsing the file that write_binary_stl completed gives the
\* count N = Len(T) and, for every k, record k's three vertices are the
\* vertices of T[k], in the same order and with the same coordinate order.
C9_RoundTripExact ==
    pc = "stl_done" =>
        LET T == Triangles
            bytes == FileBytes(Calls, T)
            N == Len(T)
        IN  /\ Len(bytes) = 84 + 50 * N
            /\ ParseCount(bytes) = N
            /\ \A k \in 1..N : \A j \in 1..3 : ParseVector(bytes, k, j) = T[k][j]

\* C9, amended: parsing the file that write_binary_stl completed gives the
\* count N = Len(T) and, for every k, record k's three vertices are the
\* vertices of T[k] in the same order with the coordinates in the same order,
\* each coordinate rounded to the nearest single-precision value.
C9_RoundTrip ==
    pc = "stl_done" =>
        LET T == Triangles
            bytes == FileBytes(Calls, T)
            N == Len(T)
        IN  /\ Len(bytes) = 84 + 50 * N
            /\ ParseCount(bytes) = N
            /\ \A k \in 1..N : \A j \in 1..3 : \A c \in 1..3 :
                NearestSingle(ParseVector(bytes, k, j)[c], T[k][j][c])

C9_Witness ==
    /\ pc = "stl_done"
    /\ Len(Triangles) = 2
    /\ Triangles[1] = << <<0, 0, 0>>, <<4853, 2758, 0>>, <<0, 0, 1>> >>
    /\ Triangles[2][1] = <<-33554434, 16777219, 5>>
    /\ ParseVector(FileBytes(Calls, Triangles), 1, 2) = <<4853, 2758, 0>>
    /\ ParseVector(FileBytes(Calls, Triangles), 2, 1) = <<-33554432, 16777220, 5>>
    /\ ParseVector(FileBytes(Calls, Triangles), 2, 2) = <<-33554432, 16777224, 5>>

\* Every edge of the table is an edge of exactly two of its faces.
EdgeSharing(table) == \A e \in Edges(table) : FacesWithEdge(table, e) = 2

\* C10: whatever the positive circumradius, get_dodecahedron_vertices gives 20
\* vertices (at 20 different positions) and get_dodecahedron_faces 12 faces of
\* 5 distinct indices in 0..19; the edges of the faces are 30, each an edge of
\* exactly 2 faces, and every vertex index is in exactly 3 faces.
C10_DodecahedronCombinatorics ==
    (pc # "shell_start" /\ circumradius > 0) =>
        LET V == get_dodecahedron_vertices(circumradius)
            F == get_dodecahedron_faces
        IN  /\ Len(V) = 20
            /\ Cardinality({V[k] : k \in 1..Len(V)}) = 20
            /\ Len(F) = 12
            /\ \A f \in 1..Len(F) :
                /\ Len(F[f]) = 5
                /\ Cardinality({F[f][i] : i \in 1..5}) = 5
                /\ \A i \in 1..5 : F[f][i] \in 0..19
            /\ Cardinality(Edges(F)) = 30
            /\ EdgeSharing(F)
            /\ \A v \in 0..19 : FacesWithVertex(F, v) = 3

C10_Witness ==
    /\ pc = "shell_done"
    /\ circumradius = 100
    /\ faces = get_dodecahedron_faces
    /\ Len(all_triangles) = 13
    /\ Len(all_triangles[13]) = 2 * 30

\* The number of faces of the table that go from index a to index b.
FacesWithDirectedEdge(table, a, b) ==
    Cardinality({f \in 1..Len(table) :
                    \E i \in 1..5 : table[f][i] = a /\ table[f][(i % 5) + 1] = b})

\* The sign of the dot product of the right-hand-rule normal of the first three
\* vertices of face f (from 1) with the face centre, the direction of the
\* outward normal get_face_normals derives.
FaceOrientation(vertices, table, f) ==
    LET fv == FaceVerts(vertices, table[f])
        n == VCross(VSub(fv[2], fv[1]), VSub(fv[3], fv[1]))
    IN  ZSign(VDot(n, get_face_centers(vertices, table)[f]))

\* C11: the 12 faces of the table are listed counter-clockwise seen from
\* outside: each directed edge of a face is in exactly one face and its reverse
\* is in exactly one face, and the right-hand-rule normal of the first three
\* vertices of every face has a positive dot product with the face centre.
C11_FacesCounterClockwise ==
    (pc # "shell_start" /\ circumradius > 0) =>
        LET V == get_dodecahedron_vertices(circumradius)
            F == get_dodecahedron_faces
        IN  /\ \A e \in Edges(F) :
                /\ FacesWithDirectedEdge(F, e[1], e[2]) = 1
                /\ FacesWithDirectedEdge(F, e[2], e[1]) = 1
            /\ \A f \in 1..Len(F) : FaceOrientation(V, F, f) > 0

C11_Witness ==
    /\ pc = "shell_faces"
    /\ face_idx = 12
    /\ circumradius = 4
    /\ faces = get_dodecahedron_faces
    /\ \A f \in 1..12 : FaceOrientation(Vertices, faces, f) = 1

\* The rim samples in the counter-clockwise span from angle a0 to angle a1, in
\* increasing angular order from a0.
SpanSamples(a0, a1) ==
    LET Key(hi) == (hole_angle(hi) - a0) % FULL_TURN
        InSpan(hi) == Key(hi) =< (a1 - a0) % FULL_TURN
    IN  SortSeq(SelectSeq(RangeSeq(CYLINDER_SEGMENTS), InSpan),
                LAMBDA x, y : Key(x) < Key(y))

\* The angles get_angle gives for the ends of pentagon edge i of face f.
EdgeAngle0(f, i) == get_angle(Vertices, faces, noise[f + 1], f, i)

EdgeAngle1(f, i) == get_angle(Vertices, faces, noise[f + 1], f, (i + 1) % 5)

\* C12: for every pentagon edge of every finished face the sector test of
\* create_simple_dodecahedron_with_holes selects exactly the rim samples in the
\* counter-clockwise span from vertex i to vertex i + 1, in increasing angular
\* order from vertex i, also where the span crosses +/-pi or 0.
C12_SectorTestWraparound ==
    \A f \in DoneFaces : \A i \in 0..4 :
        sector_hole_indices(EdgeAngle0(f, i), EdgeAngle1(f, i))
            = SpanSamples(EdgeAngle0(f, i), EdgeAngle1(f, i))

\* Twice the circular angular distance of rim sample hi from the direction of
\* the midpoint of the span from a0 to a1.
MidpointDistance(a0, a1, hi) ==
    LET mid2 == 2 * a0 + ((a1 - a0) % FULL_TURN)
        x == (2 * hole_angle(hi) - mid2) % (2 * FULL_TURN)
    IN  IF x =< FULL_TURN THEN x ELSE 2 * FULL_TURN - x

\* The rim samples nearest to the direction of the midpoint of the edge.
NearestSamples(a0, a1) ==
    {hi \in 0..(CYLINDER_SEGMENTS - 1) :
        \A o \in 0..(CYLINDER_SEGMENTS - 1) :
            MidpointDistance(a0, a1, hi) =< MidpointDistance(a0, a1, o)}

\* The triangles of the batch of face f that lie on pentagon edge i.
TrianglesOnEdge(f, i) ==
    SelectSeq(all_triangles[f + 1],
              LAMBDA t : {PV(faces, f, i), PV(faces, f, i + 1)} \subseteq PointSet(t))

\* C13: a pentagon edge of a finished face gets the single-triangle fallback
\* only when no rim sample lies in its span, and then the edge has exactly one
\* triangle (pv0, pv1, h), h being a rim sample nearest to the direction of the
\* midpoint of the edge.
C13_SingleTriangleFallback ==
    \A f \in DoneFaces : \A i \in 0..4 :
        LET a0 == EdgeAngle0(f, i)
            a1 == EdgeAngle1(f, i)
        IN  sector_hole_indices(a0, a1) = <<>> =>
                /\ SpanSamples(a0, a1) = <<>>
                /\ Len(TrianglesOnEdge(f, i)) = 1
                /\ \E h \in NearestSamples(a0, a1) :
                        TrianglesOnEdge(f, i)[1]
                            = <<PV(faces, f, i), PV(faces, f, i + 1), HO(f, h)>>

\* The hole-wall triangles of face f: those of its batch that join the outer
\* rim to the inner rim.
WallTrisOf(f) ==
    SelectSeq(all_triangles[f + 1],
              LAMBDA t : HasFacePoint(t, "HO", f) /\ HasFacePoint(t, "HI", f))

\* The position of a rim sample of face f in the basis (basis_x, basis_y,
\* normal), in 1/100 mm from the face centre: the inner rim lies inner_offset
\* = WALL_THICKNESS below the outer one (line 500).
Pos3D(f, p) ==
    LET xy == Pos2D(Vertices, faces, hole_diameters, f, p)
    IN  <<xy[1], xy[2], IF p[1] = "HI" THEN -(100 * WALL_THICKNESS) ELSE 0>>

\* (v1 - v0) x (v2 - v0) . (c - axis) for a triangle of the wall of face f, c its
\* centroid (times 3): negative when the normal points to the hole axis.
WallNormalDotRadial(f, t) ==
    LET p0 == Pos3D(f, t[1])
        p1 == Pos3D(f, t[2])
        p2 == Pos3D(f, t[3])
        n == cross(<<p1[1] - p0[1], p1[2] - p0[2], p1[3] - p0[3]>>,
                   <<p2[1] - p0[1], p2[2] - p0[2], p2[3] - p0[3]>>)
    IN  n[1] * (p0[1] + p1[1] + p2[1]) + n[2] * (p0[2] + p1[2] + p2[2])

\* The four points of rim segment i of face f.
SegmentPoints(f, i) ==
    {HO(f, i), HO(f, (i + 1) % CYLINDER_SEGMENTS),
     HI(f, i), HI(f, (i + 1) % CYLINDER_SEGMENTS)}

\* C14: the hole wall of every face, read when the face loop has just appended
\* the batch of the face, has 2 * CYLINDER_SEGMENTS triangles, two on the four
\* points outer[i], outer[i + 1], inner[i], inner[i + 1] of each rim segment i;
\* no two of them traverse an edge in the same direction, and their normals
\* point to the hole axis.
C14_HoleWall ==
    (pc = "faces" /\ face_idx > 0) =>
        LET f == face_idx - 1
            w == WallTrisOf(f)
        IN  /\ Len(w) = 2 * CYLINDER_SEGMENTS
            /\ \A i \in 0..(CYLINDER_SEGMENTS - 1) :
                Cardinality({k \in 1..Len(w) : PointSet(w[k]) \subseteq SegmentPoints(f, i)}) = 2
            /\ \A k \in 1..Len(w) :
                /\ Cardinality(PointSet(w[k])) = 3
                /\ \A e \in DirectedEdges(w[k]) :
                    /\ EdgeUse(w, e[1], e[2]) = 1
                    /\ EdgeUse(w, e[2], e[1]) =< 1
                /\ WallNormalDotRadial(f, w[k]) < 0

C14_Witness ==
    /\ pc = "faces"
    /\ face_idx = 12
    /\ hole_diameters = HOLE_DIAMETERS
    /\ Len(WallTrisOf(11)) = 2 * CYLINDER_SEGMENTS
    /\ WallNormalDotRadial(11, WallTrisOf(11)[2]) < 0
    /\ EdgeUse(WallTrisOf(11), HO(11, 1), HI(11, 0)) = 1
    /\ EdgeUse(WallTrisOf(11), HI(11, 0), HO(11, 1)) = 1

\* The loop iteration a triangle belongs to: the face index for a triangle of a
\* face (every one of them has a rim point), 12 + v for one of the knob at
\* vertex v.
Owner(t) ==
    IF HasKind(t, "K") THEN Len(get_dodecahedron_faces) + t[1][2]
    ELSE (CHOOSE p \in PointSet(t) : p[1] \in {"HO", "HI", "IC"})[2]

\* The accumulator holds the triangles of faces 0, 1, ... in this order, then
\* those of the knobs at vertices 0, 1, ... in this order.
FacesThenKnobs ==
    \A k \in 1..Len(all_triangles) :
        \A n \in 1..Len(all_triangles[k]) : Owner(all_triangles[k][n]) = k - 1

\* One step keeps the accumulator as a prefix of itself, and a step that
\* writes the file is the only one of its run: it starts from the empty file
\* after the count was logged, ends the run and leaves the accumulator alone.
AppendOnlyStep ==
    /\ Len(all_triangles') >= Len(all_triangles)
    /\ SubSeq(all_triangles', 1, Len(all_triangles)) = all_triangles
    /\ pc \in {"write", "done", "io_error"} => all_triangles' = all_triangles
    /\ (pc' = "write" /\ pc # "write") => (pc = "knobs" /\ knob_idx = Len(Vertices))
    /\ file' # file =>
        /\ pc = "write"
        /\ file = <<>>
        /\ pc' \in {"done", "io_error"}
        /\ all_triangles' = all_triangles

\* C15: the accumulator starts empty and only grows at its end, every step
\* leaving its contents as a prefix of the new contents; the triangles of the
\* faces, in face order, come before those of the knobs, in vertex order; the
\* file is written in one step only, after the last append, and that step does
\* not change the accumulator.
C15_AccumulatorAppendOnly ==
    /\ [](pc = "start" => all_triangles = <<>>)
    /\ [](FacesThenKnobs)
    /\ [][AppendOnlyStep]_vars

C15_Witness ==
    /\ pc = "done"
    /\ Len(all_triangles) = 32
    /\ Owner(all_triangles[12][1]) = 11
    /\ Owner(all_triangles[13][1]) = 12
    /\ Len(Calls) = 2 + 5 * Len(Triangles)

\* No two triangles of T traverse an edge in the same direction.
OppositeTraversal(T) ==
    \A k \in 1..Len(T) :
        \A e \in DirectedEdges(T[k]) : e[1] # e[2] => EdgeUse(T, e[1], e[2]) = 1

\* What create_sphere_mesh returns: (n + 1) * n vertices and 2 * n * n
\* triangles, the two of quad (i, j) being (v0, v2, v1) and (v1, v2, v3) with
\* the longitude wrapping to column 0, on indices of returned vertices.
SphereCounts ==
    LET n == segments
    IN  /\ Len(mesh_vertices) = (n + 1) * n
        /\ Len(triangles) = 2 * n * n
        /\ \A k \in 1..Len(triangles) : \A c \in 1..3 :
                triangles[k][c] \in 0..(Len(mesh_vertices) - 1)
        /\ \A i \in 0..(n - 1) : \A j \in 0..(n - 1) :
            LET q == i * n + j
                At(r, c) == <<"sphere", r, c % n>>
                Place(k, c) == mesh_vertices[triangles[k][c] + 1]
            IN  /\ {Place(2 * q + 1, c) : c \in 1..3}
                        = {At(i, j), At(i + 1, j), At(i, j + 1)}
                /\ {Place(2 * q + 2, c) : c \in 1..3}
                        = {At(i, j + 1), At(i + 1, j), At(i + 1, j + 1)}

\* C16 as stated: for every segment count n >= 1 the sphere mesh has
\* (n + 1) * n vertices and 2 * n * n triangles, two per quad with the longitude
\* wrapping, on indices of returned vertices, and no two of its triangles
\* traverse a shared edge in the same direction.
C16_SphereMeshAnyCount ==
    (pc = "sphere_done" /\ segments >= 1) =>
        /\ SphereCounts
        /\ OppositeTraversal(triangles)

\* C16, amended: the counts and the indices for every segment count n >= 1,
\* the opposite traversal of shared edges for every n >= 3.
C16_SphereMesh ==
    (pc = "sphere_done" /\ segments >= 1) =>
        /\ SphereCounts
        /\ segments >= 3 => OppositeTraversal(triangles)

C16_Witness ==
    /\ pc = "sphere_done"
    /\ segments = 3
    /\ Len(triangles) = 18
    /\ triangles[6] = <<0, 5, 3>>
    /\ EdgeUse(triangles, 3, 5) = 1
    /\ EdgeUse(triangles, 5, 3) = 1

\* C17: for every segment count n >= 3 no two of the 4 * n triangles of the
\* cylinder (n of the bottom cap, n of the top cap, 2 * n of the side) traverse
\* a shared edge in the same direction.
C17_CylinderWinding ==
    (pc = "cylinder_done" /\ segments >= 3) =>
        /\ Len(triangles) = 4 * segments
        /\ OppositeTraversal(triangles)

====
